---- MODULE Spec2Model ----
(***************************************************************************)
(* Model of the multi-page MaxRects atlas packer (src/utils/atlasPacker.ts) *)
(* packAtlases is unrolled into its control points: the call, the while    *)
(* test, one step per iteration of the for loop, and the end of a pass.    *)
(* The caller invokes packAtlases twice on the same arguments so that the  *)
(* result of the first call can be compared with the second.               *)
(* The packing worker (src/utils/packer.worker.ts) is a second state       *)
(* machine over its message queue; it has specifications of its own.       *)
(* The atlas preview (AtlasPreviewModal) is a third one: its packing effect *)
(* with the delayed call of packAtlases, under SpecPreview.                 *)
(* SpecSorted and SpecSquares run the stepwise packer on sorted lists and  *)
(* on identical squares; SpecDirect takes a whole call as one step.        *)
(***************************************************************************)
EXTENDS Integers, Sequences, FiniteSets

\* ------------------------------------------------------------------ bounds
MaxTasks == 3      \* longest input list
MaxDim   == 2      \* largest targetWidth / targetHeight of an item
MaxPage  == 4      \* largest page size (maxSize)
MaxPad   == 1      \* largest padding
MaxMsgs  == 2      \* most requests posted to the worker
MaxChanges == 3    \* most runs of the preview's packing effect after mount
MaxSquares == 10   \* longest input list of identical squares

\* Number.MAX_VALUE, the "no node found" score of findBestNode; every real
\* score is below the page size, so the largest model integer stands for it.
MAX_VALUE == 2147483647

VARIABLES
  tasks,             \* the caller's task array (argument of packAtlases)
  maxSize,           \* argument maxSize
  padding,           \* argument padding
  pc,                \* control point: "call", "while", "for", "return", "done"
  remaining,         \* local: tasks not yet placed, in sorted order
  k,                 \* position of the for..of iterator in remaining (1-based)
  freeRects,         \* packer.freeRects of the page being built
  pageItems,         \* local: placements of the page being built
  didntFit,          \* local: tasks that failed to place on this page
  pages,             \* local: the pages built so far (the return value)
  currentPageIndex,  \* local: next page id
  run,               \* which of the caller's two calls is executing
  firstPages,        \* what the first call returned
  sent,              \* worker: every request posted by the main thread, in order
  inbox,             \* worker: requests queued and not yet delivered to onmessage
  packed,            \* worker: the requests packAtlases was invoked for, in order
  outbox,            \* worker: the messages passed to self.postMessage, in order
  isOpen,            \* preview: prop isOpen
  previewTasks,      \* preview: prop tasks
  isOptimized,       \* preview: state isOptimized (the view mode)
  previewMaxSize,    \* preview: state maxSize (the page size)
  previewPages,      \* preview: state pages
  timer,             \* preview: the timeout the last effect run's cleanup clears (0: none)
  pending,           \* preview: the timeouts set and neither fired nor cleared, oldest first
  effects,           \* preview: how many times the packing effect re-ran after mount
  ran                \* preview: the timeouts whose callback has run

pvars == <<tasks, maxSize, padding, pc, remaining, k, freeRects, pageItems,
           didntFit, pages, currentPageIndex, run, firstPages>>

wvars == <<sent, inbox, packed, outbox>>

uvars == <<isOpen, previewTasks, isOptimized, previewMaxSize, previewPages,
           timer, pending, effects, ran>>

vars == <<pvars, wvars, uvars>>

\* ----------------------------------------------------------------- helpers
RemoveAt(s, i) == SubSeq(s, 1, i - 1) \o SubSeq(s, i + 1, Len(s))

Min(a, b) == IF a < b THEN a ELSE b

Abs(a) == IF a < 0 THEN -a ELSE a

\* An OptimizationTask as far as the packer reads it; id stands for the
\* object identity (its position in the caller's array).
MkTask(i, d) == [id |-> i, targetWidth |-> d[1], targetHeight |-> d[2]]

Dims == (1..MaxDim) \X (1..MaxDim)

TaskLists ==
  UNION { { [i \in 1..n |-> MkTask(i, f[i])] : f \in [1..n -> Dims] } : n \in 0..MaxTasks }

\* ---------------------------------------------------------- MaxRectsPacker
\* constructor: one free rectangle covering the page
NewFreeRects(width, height) == << [x |-> 0, y |-> 0, width |-> width, height |-> height] >>

isContained(a, b) ==
  /\ a.x >= b.x
  /\ a.y >= b.y
  /\ a.x + a.width <= b.x + b.width
  /\ a.y + a.height <= b.y + b.height


\* the residual nodes without the one to the right of the used node
newNodesNoRight(freeNode, usedNode) ==
  LET horiz == usedNode.x < freeNode.x + freeNode.width /\ usedNode.x + usedNode.width > freeNode.x
      vert  == usedNode.y < freeNode.y + freeNode.height /\ usedNode.y + usedNode.height > freeNode.y
      top == IF horiz /\ usedNode.y > freeNode.y /\ usedNode.y < freeNode.y + freeNode.height
             THEN << [x |-> freeNode.x, y |-> freeNode.y, width |-> freeNode.width,
                      height |-> usedNode.y - freeNode.y] >>
             ELSE <<>>
      bottom == IF horiz /\ usedNode.y + usedNode.height < freeNode.y + freeNode.height
                THEN << [x |-> freeNode.x, y |-> usedNode.y + usedNode.height,
                         width |-> freeNode.width,
                         height |-> freeNode.y + freeNode.height - (usedNode.y + usedNode.height)] >>
                ELSE <<>>
      left == IF vert /\ usedNode.x > freeNode.x /\ usedNode.x < freeNode.x + freeNode.width
              THEN << [x |-> freeNode.x, y |-> freeNode.y,
                       width |-> usedNode.x - freeNode.x, height |-> freeNode.height] >>
              ELSE <<>>
  IN top \o bottom \o left

\* the "New nodes" part of splitFreeNode: the residual nodes it pushes onto
\* this.freeRects, in push order (top, bottom, left, right).
newNodes(freeNode, usedNode) ==
  LET horiz == usedNode.x < freeNode.x + freeNode.width /\ usedNode.x + usedNode.width > freeNode.x
      vert  == usedNode.y < freeNode.y + freeNode.height /\ usedNode.y + usedNode.height > freeNode.y
      top == IF horiz /\ usedNode.y > freeNode.y /\ usedNode.y < freeNode.y + freeNode.height
             THEN << [x |-> freeNode.x, y |-> freeNode.y, width |-> freeNode.width,
                      height |-> usedNode.y - freeNode.y] >>
             ELSE <<>>
      bottom == IF horiz /\ usedNode.y + usedNode.height < freeNode.y + freeNode.height
                THEN << [x |-> freeNode.x, y |-> usedNode.y + usedNode.height,
                         width |-> freeNode.width,
                         height |-> freeNode.y + freeNode.height - (usedNode.y + usedNode.height)] >>
                ELSE <<>>
      left == IF vert /\ usedNode.x > freeNode.x /\ usedNode.x < freeNode.x + freeNode.width
              THEN << [x |-> freeNode.x, y |-> freeNode.y,
                       width |-> usedNode.x - freeNode.x, height |-> freeNode.height] >>
              ELSE <<>>
      right == IF vert /\ usedNode.x + usedNode.width < freeNode.x + freeNode.width
               THEN << [x |-> usedNode.x + usedNode.width, y |-> freeNode.y,
                        width |-> freeNode.x + freeNode.width - (usedNode.x + usedNode.width),
                        height |-> freeNode.height] >>
               ELSE <<>>
  IN top \o bottom \o left \o right

\* splitFreeNode whose intersection test compares usedNode.x with freeNode.x
\* instead of the free node's right edge
splitFreeNodeBadTest(freeNode, usedNode) ==
  IF \/ usedNode.x >= freeNode.x
     \/ usedNode.x + usedNode.width <= freeNode.x
     \/ usedNode.y >= freeNode.y + freeNode.height
     \/ usedNode.y + usedNode.height <= freeNode.y
  THEN [hit |-> FALSE, new |-> <<>>]
  ELSE [hit |-> TRUE, new |-> newNodes(freeNode, usedNode)]

\* splitFreeNode: hit is the return value, new the nodes pushed.
splitFreeNode(freeNode, usedNode) ==
  IF \/ usedNode.x >= freeNode.x + freeNode.width
     \/ usedNode.x + usedNode.width <= freeNode.x
     \/ usedNode.y >= freeNode.y + freeNode.height
     \/ usedNode.y + usedNode.height <= freeNode.y
  THEN [hit |-> FALSE, new |-> <<>>]
  ELSE [hit |-> TRUE, new |-> newNodes(freeNode, usedNode)]


\* pruneFreeList that, finding entry j contained in entry i, removes entry i
RECURSIVE pruneLoopWrongVictim(_, _, _)
pruneLoopWrongVictim(free, i, j) ==
  IF i > Len(free) THEN free
  ELSE IF j > Len(free) THEN pruneLoopWrongVictim(free, i + 1, i + 2)
  ELSE IF isContained(free[i], free[j]) THEN pruneLoopWrongVictim(RemoveAt(free, i), i, i + 1)
  ELSE IF isContained(free[j], free[i]) THEN pruneLoopWrongVictim(RemoveAt(free, i), i, i + 1)
  ELSE pruneLoopWrongVictim(free, i, j + 1)

\* pruneFreeList, with its in-place splices: (i, j) are the loop indices
\* (1-based); removing entry i restarts the inner loop on the entry that
\* moved into position i, removing entry j re-reads position j.
RECURSIVE pruneLoop(_, _, _)
pruneLoop(free, i, j) ==
  IF i > Len(free) THEN free
  ELSE IF j > Len(free) THEN pruneLoop(free, i + 1, i + 2)
  ELSE IF isContained(free[i], free[j]) THEN pruneLoop(RemoveAt(free, i), i, i + 1)
  ELSE IF isContained(free[j], free[i]) THEN pruneLoop(RemoveAt(free, j), i, j)
  ELSE pruneLoop(free, i, j + 1)

pruneFreeList(free) == pruneLoop(free, 1, 2)

\* the split loop of placeRect: nodes pushed by splitFreeNode land at the end
\* of the list and are visited by the same loop (the length is re-read).
RECURSIVE splitLoop(_, _, _)
splitLoop(free, i, rect) ==
  IF i > Len(free) THEN free
  ELSE LET s == splitFreeNode(free[i], rect)
       IN IF s.hit
          THEN splitLoop(RemoveAt(free \o s.new, i), i, rect)
          ELSE splitLoop(free, i + 1, rect)

\* the split loop without the splice of the node that was split
RECURSIVE splitLoopNoSplice(_, _, _)
splitLoopNoSplice(free, i, rect) ==
  IF i > Len(free) THEN free
  ELSE LET s == splitFreeNode(free[i], rect)
       IN splitLoopNoSplice(free \o s.new, i + 1, rect)

placeRectNoSplice(free, rect) == pruneFreeList(splitLoopNoSplice(free, 1, rect))


\* placeRect that splits the free list and does not prune it
placeRectNoPrune(free, rect) == splitLoop(free, 1, rect)

placeRect(free, rect) == pruneFreeList(splitLoop(free, 1, rect))


\* findBestNode whose scan replaces the best node on an equal score (the last
\* of the tied nodes wins)
RECURSIVE findBestLoopLastTie(_, _, _, _, _)
findBestLoopLastTie(free, i, w, h, best) ==
  IF i > Len(free) THEN best
  ELSE LET f == free[i]
           shortSideFit == Min(Abs(f.width - w), Abs(f.height - h))
       IN IF f.width >= w /\ f.height >= h /\ shortSideFit <= best.score
          THEN findBestLoopLastTie(free, i + 1, w, h,
                 [score |-> shortSideFit,
                  rect |-> [x |-> f.x, y |-> f.y, width |-> w, height |-> h]])
          ELSE findBestLoopLastTie(free, i + 1, w, h, best)


\* findBestNode that accepts a node only if it is strictly larger than the
\* padded item
RECURSIVE findBestLoopStrictFit(_, _, _, _, _)
findBestLoopStrictFit(free, i, w, h, best) ==
  IF i > Len(free) THEN best
  ELSE LET f == free[i]
           shortSideFit == Min(Abs(f.width - w), Abs(f.height - h))
       IN IF f.width > w /\ f.height > h /\ shortSideFit < best.score
          THEN findBestLoopStrictFit(free, i + 1, w, h,
                 [score |-> shortSideFit,
                  rect |-> [x |-> f.x, y |-> f.y, width |-> w, height |-> h]])
          ELSE findBestLoopStrictFit(free, i + 1, w, h, best)

\* findBestNode (Best Short Side Fit): the scan keeps the first node with the
\* strictly smallest score; i is the scan position, best the running
\* {score, rect}.
RECURSIVE findBestLoop(_, _, _, _, _)
findBestLoop(free, i, w, h, best) ==
  IF i > Len(free) THEN best
  ELSE LET f == free[i]
           leftoverHoriz == Abs(f.width - w)
           leftoverVert == Abs(f.height - h)
           shortSideFit == Min(leftoverHoriz, leftoverVert)
       IN IF f.width >= w /\ f.height >= h /\ shortSideFit < best.score
          THEN findBestLoop(free, i + 1, w, h,
                 [score |-> shortSideFit,
                  rect |-> [x |-> f.x, y |-> f.y, width |-> w, height |-> h]])
          ELSE findBestLoop(free, i + 1, w, h, best)

\* findBestNode that accepts a node on its width alone
RECURSIVE findBestLoopNoHeight(_, _, _, _, _)
findBestLoopNoHeight(free, i, w, h, best) ==
  IF i > Len(free) THEN best
  ELSE LET f == free[i]
           shortSideFit == Min(Abs(f.width - w), Abs(f.height - h))
       IN IF f.width >= w /\ shortSideFit < best.score
          THEN findBestLoopNoHeight(free, i + 1, w, h,
                 [score |-> shortSideFit,
                  rect |-> [x |-> f.x, y |-> f.y, width |-> w, height |-> h]])
          ELSE findBestLoopNoHeight(free, i + 1, w, h, best)

noNode == [score |-> MAX_VALUE, rect |-> [x |-> 0, y |-> 0, width |-> 0, height |-> 0]]

findBestNodeNoHeight(free, w, h) == findBestLoopNoHeight(free, 1, w, h, noNode)

findBestNode(free, w, h) == findBestLoop(free, 1, w, h, noNode)

\* insert that reserves and stores the padded size
insertStorePadded(free, task, pad) ==
  LET requiredW == task.targetWidth + pad
      requiredH == task.targetHeight + pad
      bestNode == findBestNode(free, requiredW, requiredH)
  IN IF bestNode.score = MAX_VALUE
     THEN [ok |-> FALSE, free |-> free]
     ELSE [ok |-> TRUE,
           rect |-> [x |-> bestNode.rect.x, y |-> bestNode.rect.y,
                     w |-> requiredW, h |-> requiredH, task |-> task],
           free |-> placeRect(free, bestNode.rect)]

\* insert that searches and reserves the unpadded size
insertNoPadding(free, task, pad) ==
  LET bestNode == findBestNode(free, task.targetWidth, task.targetHeight)
  IN IF bestNode.score = MAX_VALUE
     THEN [ok |-> FALSE, free |-> free]
     ELSE [ok |-> TRUE,
           rect |-> [x |-> bestNode.rect.x, y |-> bestNode.rect.y,
                     w |-> task.targetWidth, h |-> task.targetHeight, task |-> task],
           free |-> placeRect(free, bestNode.rect)]


\* insert that adds the padding on both sides of the item (left and right,
\* top and bottom)
insertPadBothSides(free, task, pad) ==
  LET requiredW == task.targetWidth + 2 * pad
      requiredH == task.targetHeight + 2 * pad
      bestNode == findBestNode(free, requiredW, requiredH)
  IN IF bestNode.score = MAX_VALUE
     THEN [ok |-> FALSE, free |-> free]
     ELSE [ok |-> TRUE,
           rect |-> [x |-> bestNode.rect.x, y |-> bestNode.rect.y,
                     w |-> task.targetWidth, h |-> task.targetHeight, task |-> task],
           free |-> placeRect(free, bestNode.rect)]


\* insert that looks for a region of the unpadded size and reserves the
\* padded size there
insertFitUnpadded(free, task, pad) ==
  LET requiredW == task.targetWidth + pad
      requiredH == task.targetHeight + pad
      bestNode == findBestNode(free, task.targetWidth, task.targetHeight)
  IN IF bestNode.score = MAX_VALUE
     THEN [ok |-> FALSE, free |-> free]
     ELSE [ok |-> TRUE,
           rect |-> [x |-> bestNode.rect.x, y |-> bestNode.rect.y,
                     w |-> task.targetWidth, h |-> task.targetHeight, task |-> task],
           free |-> placeRect(free, [x |-> bestNode.rect.x, y |-> bestNode.rect.y,
                                     width |-> requiredW, height |-> requiredH])]

\* insert: ok = FALSE is the null return; otherwise rect is the PackedRect
\* returned and free the packer's free list after placeRect.
insert(free, task, pad) ==
  LET requiredW == task.targetWidth + pad
      requiredH == task.targetHeight + pad
      bestNode == findBestNode(free, requiredW, requiredH)
  IN IF bestNode.score = MAX_VALUE
     THEN [ok |-> FALSE, free |-> free]
     ELSE [ok |-> TRUE,
           rect |-> [x |-> bestNode.rect.x, y |-> bestNode.rect.y,
                     w |-> task.targetWidth, h |-> task.targetHeight, task |-> task],
           free |-> placeRect(free, bestNode.rect)]


\* the sort insertion that puts t in front of the elements of equal height
\* (an unstable sort)
RECURSIVE insertByHeightTiesFirst(_, _)
insertByHeightTiesFirst(s, t) ==
  IF s = <<>> THEN <<t>>
  ELSE IF Head(s).targetHeight > t.targetHeight
       THEN <<Head(s)>> \o insertByHeightTiesFirst(Tail(s), t)
       ELSE <<t>> \o s

\* ------------------------------------------------------------- packAtlases
\* [...tasks].sort((a, b) => b.targetHeight - a.targetHeight): Array.sort is
\* stable, so t goes behind every element at least as tall.
RECURSIVE insertByHeight(_, _)
insertByHeight(s, t) ==
  IF s = <<>> THEN <<t>>
  ELSE IF Head(s).targetHeight >= t.targetHeight
       THEN <<Head(s)>> \o insertByHeight(Tail(s), t)
       ELSE <<t>> \o s

RECURSIVE sortByHeight(_)
sortByHeight(s) ==
  IF s = <<>> THEN <<>>
  ELSE insertByHeight(sortByHeight(SubSeq(s, 1, Len(s) - 1)), s[Len(s)])

\* the loop body that gives an oversized task a slot at the page origin
\* instead of skipping it
forBodyPlaceOversized(free, items, didnt, task, size, pad) ==
  IF task.targetWidth > size \/ task.targetHeight > size
  THEN [free |-> free,
        items |-> Append(items, [x |-> 0, y |-> 0, w |-> task.targetWidth,
                                  h |-> task.targetHeight, task |-> task]),
        didnt |-> didnt]
  ELSE LET rect == insert(free, task, pad)
       IN IF rect.ok
          THEN [free |-> rect.free, items |-> Append(items, rect.rect), didnt |-> didnt]
          ELSE [free |-> rect.free, items |-> items, didnt |-> Append(didnt, task)]

\* the body of "for (const task of remaining)": skip an oversized task,
\* otherwise insert it and record the placement or the failure.
forBody(free, items, didnt, task, size, pad) ==
  IF task.targetWidth > size \/ task.targetHeight > size
  THEN [free |-> free, items |-> items, didnt |-> didnt]
  ELSE LET rect == insert(free, task, pad)
       IN IF rect.ok
          THEN [free |-> rect.free, items |-> Append(items, rect.rect), didnt |-> didnt]
          ELSE [free |-> rect.free, items |-> items, didnt |-> Append(didnt, task)]

RECURSIVE sumArea(_)
sumArea(items) ==
  IF items = <<>> THEN 0
  ELSE sumArea(SubSeq(items, 1, Len(items) - 1)) + items[Len(items)].w * items[Len(items)].h

RECURSIVE sumSquaredWidth(_)
sumSquaredWidth(items) ==
  IF items = <<>> THEN 0
  ELSE sumSquaredWidth(SubSeq(items, 1, Len(items) - 1)) + items[Len(items)].w * items[Len(items)].w

\* the efficiency computed with w * w as the area of a placement
efficiencyOfWidthSquared(items, size) == [num |-> sumSquaredWidth(items) * 100, den |-> size * size]

\* (usedArea / totalArea) * 100 as the exact fraction num / den; the
\* rounding of the floating-point division is not represented.
efficiencyOf(items, size) == [num |-> sumArea(items) * 100, den |-> size * size]

\* remaining.splice with a delete count of didntFit.length
carryOverShortSplice(rem, didnt) == didnt \o SubSeq(rem, Len(didnt) + 1, Len(rem))


RECURSIVE reversed(_)
reversed(s) == IF s = <<>> THEN <<>> ELSE Append(reversed(Tail(s)), Head(s))

\* the carry-over that hands the failed tasks on in reverse order
carryOverReversed(rem, didnt) == reversed(didnt)

\* remaining.splice(0, remaining.length, ...didntFit)
carryOver(rem, didnt) == didnt


\* packAtlases as a function of its arguments: forLoop is one pass over
\* remaining, whileLoop the passes, pgs and idx the pages and page counter.
RECURSIVE forLoop(_, _, _, _, _, _, _)
forLoop(free, items, didnt, rem, i, size, pad) ==
  IF i > Len(rem) THEN [free |-> free, items |-> items, didnt |-> didnt]
  ELSE LET b == forBody(free, items, didnt, rem[i], size, pad)
       IN forLoop(b.free, b.items, b.didnt, rem, i + 1, size, pad)


\* packAtlases whose stall check comes before the page is pushed: the empty
\* page of the stalled pass is not in the result
RECURSIVE whileLoopPushAfterStall(_, _, _, _, _)
whileLoopPushAfterStall(rem, pgs, idx, size, pad) ==
  IF Len(rem) = 0 THEN pgs
  ELSE LET b == forLoop(NewFreeRects(size, size), <<>>, <<>>, rem, 1, size, pad)
           pushed == Append(pgs, [id |-> idx, width |-> size, height |-> size,
                                   items |-> b.items,
                                   efficiency |-> efficiencyOf(b.items, size)])
       IN IF Len(b.items) = 0 /\ Len(b.didnt) = Len(rem)
          THEN pgs
          ELSE whileLoopPushAfterStall(carryOver(rem, b.didnt), pushed, idx + 1, size, pad)

\* packAtlases whose loop ends as soon as only oversized items remain
RECURSIVE whileLoopSkipOversized(_, _, _, _, _)
whileLoopSkipOversized(rem, pgs, idx, size, pad) ==
  IF \A i \in 1..Len(rem) : rem[i].targetWidth > size \/ rem[i].targetHeight > size THEN pgs
  ELSE LET b == forLoop(NewFreeRects(size, size), <<>>, <<>>, rem, 1, size, pad)
           pushed == Append(pgs, [id |-> idx, width |-> size, height |-> size,
                                   items |-> b.items,
                                   efficiency |-> efficiencyOf(b.items, size)])
       IN IF Len(b.items) = 0 /\ Len(b.didnt) = Len(rem)
          THEN pushed
          ELSE whileLoopSkipOversized(carryOver(rem, b.didnt), pushed, idx + 1, size, pad)

RECURSIVE whileLoop(_, _, _, _, _)
whileLoop(rem, pgs, idx, size, pad) ==
  IF Len(rem) = 0 THEN pgs
  ELSE LET b == forLoop(NewFreeRects(size, size), <<>>, <<>>, rem, 1, size, pad)
           pushed == Append(pgs, [id |-> idx, width |-> size, height |-> size,
                                   items |-> b.items,
                                   efficiency |-> efficiencyOf(b.items, size)])
       IN IF Len(b.items) = 0 /\ Len(b.didnt) = Len(rem)
          THEN pushed
          ELSE whileLoop(carryOver(rem, b.didnt), pushed, idx + 1, size, pad)

packAtlases(tks, size, pad) == whileLoop(sortByHeight(tks), <<>>, 0, size, pad)

\* ---------------------------------------------------------- packer.worker
\* The requests posted to the worker. shape tells what e.data.tasks is: an
\* array of tasks, undefined (the spread at the head of packAtlases throws a
\* TypeError) or an array holding null (reading task.targetWidth throws).
MkRequest(shape, tks, size, pad) ==
  [shape |-> shape, tasks |-> tks, maxSize |-> size, padding |-> pad]

\* task lists of every length up to MaxTasks, all items MaxDim wide, heights
\* cycling through 1..MaxDim
WorkerTaskLists ==
  { [i \in 1..n |-> MkTask(i, <<MaxDim, (i % MaxDim) + 1>>)] : n \in 0..MaxTasks }

\* page sizes: every item oversized, items exactly as wide as the page, and
\* the largest page; padding 0 and the largest padding
WorkerRequests ==
  { MkRequest("array", l, s, p) :
      l \in WorkerTaskLists, s \in {MaxDim - 1, MaxDim, MaxPage}, p \in {0, MaxPad} }
  \cup { MkRequest("undefined", <<>>, MaxPage, 0), MkRequest("nullItem", <<>>, MaxPage, 0) }

\* packAtlases(tasks, maxSize, padding) raises an exception
packThrows(req) == req.shape # "array"

\* the onmessage handler that posts nothing when packing throws
handleMessageSilentCatch(req) ==
  IF packThrows(req)
  THEN [calls |-> <<req>>, posts |-> <<>>]
  ELSE [calls |-> <<req>>,
        posts |-> << [success |-> TRUE,
                      pages |-> packAtlases(req.tasks, req.maxSize, req.padding)] >>]

\* the onmessage handler that reports a result with an empty page as an error
handleMessageStallFails(req) ==
  IF packThrows(req)
  THEN [calls |-> <<req>>, posts |-> << [success |-> FALSE, error |-> "TypeError"] >>]
  ELSE LET result == packAtlases(req.tasks, req.maxSize, req.padding)
       IN IF \E i \in 1..Len(result) : result[i].items = <<>>
          THEN [calls |-> <<req>>, posts |-> << [success |-> FALSE, error |-> "stalled"] >>]
          ELSE [calls |-> <<req>>, posts |-> << [success |-> TRUE, pages |-> result] >>]

\* the onmessage handler that passes padding and maxSize in each other's place
handleMessageSwappedArgs(req) ==
  IF packThrows(req)
  THEN [calls |-> <<req>>, posts |-> << [success |-> FALSE, error |-> "TypeError"] >>]
  ELSE [calls |-> <<req>>,
        posts |-> << [success |-> TRUE,
                      pages |-> packAtlases(req.tasks, req.padding, req.maxSize)] >>]

\* self.onmessage: calls are the invocations of packAtlases it makes, posts
\* the messages it passes to self.postMessage (try: success, catch: failure)
handleMessage(req) ==
  IF packThrows(req)
  THEN [calls |-> <<req>>, posts |-> << [success |-> FALSE, error |-> "TypeError"] >>]
  ELSE [calls |-> <<req>>,
        posts |-> << [success |-> TRUE,
                      pages |-> packAtlases(req.tasks, req.maxSize, req.padding)] >>]

\* --------------------------------------------------------------- the state
\* the locals of packAtlases and the worker's queues before anything ran
InitLocals ==
  /\ pc = "call"
  /\ remaining = <<>>
  /\ k = 1
  /\ freeRects = <<>>
  /\ pageItems = <<>>
  /\ didntFit = <<>>
  /\ pages = <<>>
  /\ currentPageIndex = 0
  /\ run = 1
  /\ firstPages = <<>>
  /\ sent = <<>>
  /\ inbox = <<>>
  /\ packed = <<>>
  /\ outbox = <<>>

\* no preview is mounted
PreviewUnmounted ==
  /\ isOpen = FALSE
  /\ previewTasks = <<>>
  /\ isOptimized = TRUE
  /\ previewMaxSize = MaxPage
  /\ previewPages = <<>>
  /\ timer = 0
  /\ pending = <<>>
  /\ effects = 0
  /\ ran = {}

\* packAtlases is called with arguments that meet its preconditions
Init ==
  /\ tasks \in TaskLists
  /\ maxSize \in 1..MaxPage
  /\ padding \in 0..MaxPad
  /\ InitLocals
  /\ PreviewUnmounted

\* packAtlases is called with a non-positive page size or a negative padding
InitInvalid ==
  /\ tasks \in TaskLists
  /\ maxSize \in (0 - 1)..MaxPage
  /\ padding \in (0 - 1)..MaxPad
  /\ (maxSize <= 0 \/ padding < 0)
  /\ InitLocals
  /\ PreviewUnmounted

\* entry of packAtlases that keeps the page counter of the previous call
CallKeepIndex ==
  /\ pc = "call"
  /\ remaining' = sortByHeight(tasks)
  /\ pages' = <<>>
  /\ pc' = "while"
  /\ UNCHANGED <<tasks, maxSize, padding, k, freeRects, pageItems, didntFit,
                 currentPageIndex, run, firstPages>>
  /\ UNCHANGED wvars
  /\ UNCHANGED uvars


\* entry of packAtlases that sorts the caller's array in place (tasks.sort
\* without the spread copy)
CallSortInPlace ==
  /\ pc = "call"
  /\ tasks' = sortByHeight(tasks)
  /\ remaining' = sortByHeight(tasks)
  /\ pages' = <<>>
  /\ currentPageIndex' = 0
  /\ pc' = "while"
  /\ UNCHANGED <<maxSize, padding, k, freeRects, pageItems, didntFit,
                 run, firstPages>>
  /\ UNCHANGED wvars
  /\ UNCHANGED uvars

\* entry of packAtlases: sort a copy, fresh pages and page counter
Call ==
  /\ pc = "call"
  /\ remaining' = sortByHeight(tasks)
  /\ pages' = <<>>
  /\ currentPageIndex' = 0
  /\ pc' = "while"
  /\ UNCHANGED <<tasks, maxSize, padding, k, freeRects, pageItems, didntFit,
                 run, firstPages>>
  /\ UNCHANGED wvars
  /\ UNCHANGED uvars

\* while (remaining.length > 0): start a pass with a fresh packer
NewPage ==
  /\ pc = "while"
  /\ Len(remaining) > 0
  /\ freeRects' = NewFreeRects(maxSize, maxSize)
  /\ pageItems' = <<>>
  /\ didntFit' = <<>>
  /\ k' = 1
  /\ pc' = "for"
  /\ UNCHANGED <<tasks, maxSize, padding, remaining, pages, currentPageIndex,
                 run, firstPages>>
  /\ UNCHANGED wvars
  /\ UNCHANGED uvars

\* while test fails: fall through to "return pages"
LoopExit ==
  /\ pc = "while"
  /\ Len(remaining) = 0
  /\ pc' = "return"
  /\ UNCHANGED <<tasks, maxSize, padding, remaining, k, freeRects, pageItems,
                 didntFit, pages, currentPageIndex, run, firstPages>>
  /\ UNCHANGED wvars
  /\ UNCHANGED uvars

\* one iteration of the for loop
ForStep ==
  /\ pc = "for"
  /\ k <= Len(remaining)
  /\ LET b == forBody(freeRects, pageItems, didntFit, remaining[k], maxSize, padding)
     IN /\ freeRects' = b.free
        /\ pageItems' = b.items
        /\ didntFit' = b.didnt
  /\ k' = k + 1
  /\ UNCHANGED <<tasks, maxSize, padding, pc, remaining, pages, currentPageIndex,
                 run, firstPages>>
  /\ UNCHANGED wvars
  /\ UNCHANGED uvars


\* the end of a pass without the stall check
FinishPageNoStall ==
  /\ pc = "for"
  /\ k > Len(remaining)
  /\ pages' = Append(pages, [id |-> currentPageIndex, width |-> maxSize, height |-> maxSize,
                              items |-> pageItems,
                              efficiency |-> efficiencyOf(pageItems, maxSize)])
  /\ currentPageIndex' = currentPageIndex + 1
  /\ pc' = "while"
  /\ remaining' = carryOver(remaining, didntFit)
  /\ UNCHANGED <<tasks, maxSize, padding, k, freeRects, pageItems, didntFit,
                 run, firstPages>>
  /\ UNCHANGED wvars
  /\ UNCHANGED uvars

\* after the for loop: efficiency, push the page, stall check, carry over
FinishPage ==
  /\ pc = "for"
  /\ k > Len(remaining)
  /\ pages' = Append(pages, [id |-> currentPageIndex, width |-> maxSize, height |-> maxSize,
                              items |-> pageItems,
                              efficiency |-> efficiencyOf(pageItems, maxSize)])
  /\ currentPageIndex' = currentPageIndex + 1
  /\ IF Len(pageItems) = 0 /\ Len(didntFit) = Len(remaining)
     THEN /\ pc' = "return"
          /\ remaining' = remaining
     ELSE /\ pc' = "while"
          /\ remaining' = carryOver(remaining, didntFit)
  /\ UNCHANGED <<tasks, maxSize, padding, k, freeRects, pageItems, didntFit,
                 run, firstPages>>
  /\ UNCHANGED wvars
  /\ UNCHANGED uvars

\* return pages; the caller keeps the first result and calls again with the
\* same arguments
Return ==
  /\ pc = "return"
  /\ IF run = 1
     THEN /\ firstPages' = pages
          /\ run' = 2
          /\ pc' = "call"
     ELSE /\ pc' = "done"
          /\ UNCHANGED <<run, firstPages>>
  /\ UNCHANGED <<tasks, maxSize, padding, remaining, k, freeRects, pageItems,
                 didntFit, pages, currentPageIndex>>
  /\ UNCHANGED wvars
  /\ UNCHANGED uvars

Next == Call \/ NewPage \/ LoopExit \/ ForStep \/ FinishPage \/ Return

Spec == Init /\ [][Next]_vars

SpecInvalid == InitInvalid /\ [][Next]_vars


\* packAtlases is called with n identical squares of side s that fit the
\* page with their padding
InitSquares ==
  /\ \E n \in 0..MaxSquares, s \in 1..MaxDim : tasks = [i \in 1..n |-> MkTask(i, <<s, s>>)]
  /\ maxSize \in 1..MaxPage
  /\ padding \in 0..MaxPad
  /\ \A i \in 1..Len(tasks) : tasks[i].targetWidth + padding <= maxSize
  /\ InitLocals
  /\ PreviewUnmounted

SpecSquares == InitSquares /\ [][Next]_vars


\* one call of packAtlases taken as a single step, from the call to its
\* "return pages": the locals of the call are not represented
PackDirect ==
  /\ pc = "call"
  /\ pages' = packAtlases(tasks, maxSize, padding)
  /\ pc' = "return"
  /\ UNCHANGED <<tasks, maxSize, padding, remaining, k, freeRects, pageItems,
                 didntFit, currentPageIndex, run, firstPages>>
  /\ UNCHANGED wvars
  /\ UNCHANGED uvars

SpecDirect == Init /\ [][PackDirect]_vars


\* task lists already in non-increasing order of height: the sort at the
\* head of packAtlases leaves them as they are
SortedTaskLists ==
  { l \in TaskLists : \A i \in 1..(Len(l) - 1) : l[i].targetHeight >= l[i + 1].targetHeight }

\* packAtlases is called once with a list in sorted order (the caller makes
\* no second call: run starts at 2)
InitSorted ==
  /\ tasks \in SortedTaskLists
  /\ maxSize \in 1..MaxPage
  /\ padding \in 0..MaxPad
  /\ pc = "call"
  /\ remaining = <<>>
  /\ k = 1
  /\ freeRects = <<>>
  /\ pageItems = <<>>
  /\ didntFit = <<>>
  /\ pages = <<>>
  /\ currentPageIndex = 0
  /\ run = 2
  /\ firstPages = <<>>
  /\ sent = <<>>
  /\ inbox = <<>>
  /\ packed = <<>>
  /\ outbox = <<>>
  /\ PreviewUnmounted

SpecSorted == InitSorted /\ [][Next]_vars

\* ------------------------------------------------------ the packing worker
\* the worker is idle with an empty queue; no synchronous call is running
WorkerInit ==
  /\ tasks = <<>>
  /\ maxSize = 1
  /\ padding = 0
  /\ InitLocals
  /\ PreviewUnmounted

\* the main thread posts a request; it joins the worker's event queue
Send(req) ==
  /\ Len(sent) < MaxMsgs
  /\ sent' = Append(sent, req)
  /\ inbox' = Append(inbox, req)
  /\ UNCHANGED <<packed, outbox>>
  /\ UNCHANGED pvars
  /\ UNCHANGED uvars


\* an event loop that delivers the newest queued request first
OnMessageNewestFirst ==
  /\ inbox # <<>>
  /\ LET h == handleMessage(inbox[Len(inbox)])
     IN /\ packed' = packed \o h.calls
        /\ outbox' = outbox \o h.posts
  /\ inbox' = SubSeq(inbox, 1, Len(inbox) - 1)
  /\ UNCHANGED sent
  /\ UNCHANGED pvars
  /\ UNCHANGED uvars

\* the event loop delivers the oldest queued request to self.onmessage, which
\* runs to completion
OnMessage ==
  /\ inbox # <<>>
  /\ LET h == handleMessage(Head(inbox))
     IN /\ packed' = packed \o h.calls
        /\ outbox' = outbox \o h.posts
  /\ inbox' = Tail(inbox)
  /\ UNCHANGED sent
  /\ UNCHANGED pvars
  /\ UNCHANGED uvars

WorkerNext == (\E req \in WorkerRequests : Send(req)) \/ OnMessage

SpecWorker == WorkerInit /\ [][WorkerNext]_vars


\* ------------------------------------------------------- AtlasPreviewModal
\* the padding the preview passes to packAtlases
PreviewPadding == 2

\* an OptimizationTask as the preview reads it: the optimized (target) and
\* the original size
MkPreviewTask(i, target, original) ==
  [id |-> i, targetWidth |-> target[1], targetHeight |-> target[2],
   originalWidth |-> original[1], originalHeight |-> original[2]]

\* the task lists the parent passes: none, one task, two tasks; originals are
\* never smaller than targets, and one original is as large as the largest page
PreviewTaskLists ==
  { <<>>,
    << MkPreviewTask(1, <<1, 1>>, <<MaxPage, MaxPage>>) >>,
    << MkPreviewTask(1, <<1, 1>>, <<MaxPage, MaxPage>>),
       MkPreviewTask(2, <<MaxDim, 1>>, <<MaxDim, MaxDim>>) >> }

\* the two page sizes of the resolution toggle
PreviewSizes == {MaxPage - 1, MaxPage}

\* tasks.map(t => ({...t, targetWidth: ..., targetHeight: ...})): the tasks
\* handed to the packer for a view mode
packerTasks(tks, optimized) ==
  [i \in 1..Len(tks) |->
     [tks[i] EXCEPT !.targetWidth = IF optimized THEN @ ELSE tks[i].originalWidth,
                    !.targetHeight = IF optimized THEN @ ELSE tks[i].originalHeight]]

\* the oversizedAssets memo: the tasks wider or taller than the page in the
\* selected view mode
oversizedAssets(tks, size, optimized) ==
  LET isOver(t) ==
        LET w == IF optimized THEN t.targetWidth ELSE t.originalWidth
            h == IF optimized THEN t.targetHeight ELSE t.originalHeight
        IN w > size \/ h > size
  IN SelectSeq(tks, isOver)

\* clearTimeout that does nothing
clearTimeoutNoop(pend, id) == pend

\* clearTimeout(timer): the timeout with that id is no longer pending
clearTimeout(pend, id) ==
  LET other(e) == e.id # id
  IN SelectSeq(pend, other)

\* the callback passed to setTimeout, with the values its closure captured:
\* the page list it hands to setPages
timerCallback(closure) ==
  packAtlases(packerTasks(closure.tasks, closure.isOptimized), closure.maxSize, PreviewPadding)

\* a commit that changed a dependency of the packing effect: the cleanup of
\* the previous run (if it returned one), then the effect with the new values
RunEffect(open, tks, optimized, size) ==
  LET cleaned == IF timer = 0 THEN pending ELSE clearTimeout(pending, timer)
  IN /\ effects < MaxChanges
     /\ effects' = effects + 1
     /\ isOpen' = open
     /\ previewTasks' = tks
     /\ isOptimized' = optimized
     /\ previewMaxSize' = size
     /\ IF ~open
        THEN /\ previewPages' = <<>>
             /\ timer' = 0
             /\ pending' = cleaned
        ELSE /\ previewPages' = previewPages
             /\ timer' = effects + 1
             /\ pending' = Append(cleaned, [id |-> effects + 1, tasks |-> tks,
                                            isOptimized |-> optimized, maxSize |-> size])
     /\ UNCHANGED ran
     /\ UNCHANGED <<pvars, wvars>>

\* the modal is mounted closed: the effect's first run stored no pages and
\* set no timeout
PreviewInit ==
  /\ tasks = <<>>
  /\ maxSize = 1
  /\ padding = 0
  /\ InitLocals
  /\ isOpen = FALSE
  /\ previewTasks \in PreviewTaskLists
  /\ isOptimized = TRUE
  /\ previewMaxSize = MaxPage - 1
  /\ previewPages = <<>>
  /\ timer = 0
  /\ pending = <<>>
  /\ effects = 0
  /\ ran = {}

\* the parent opens or closes the preview
SetIsOpen(open) ==
  /\ open # isOpen
  /\ RunEffect(open, previewTasks, isOptimized, previewMaxSize)

\* the parent passes another task list
SetTasks(tks) ==
  /\ tks # previewTasks
  /\ RunEffect(isOpen, tks, isOptimized, previewMaxSize)

\* the view mode buttons: setIsOptimized with another value
SetIsOptimized(optimized) ==
  /\ optimized # isOptimized
  /\ RunEffect(isOpen, previewTasks, optimized, previewMaxSize)

\* the resolution buttons: setMaxSize with another value
SetMaxSize(size) ==
  /\ size # previewMaxSize
  /\ RunEffect(isOpen, previewTasks, isOptimized, size)

\* the oldest pending timeout expires (timeouts of equal delay expire in the
\* order they were set)
Expire ==
  /\ pending # <<>>
  /\ ran' = ran \cup {Head(pending).id}
  /\ pending' = Tail(pending)

\* the timeout fires: its callback packs and stores the pages
TimerFire ==
  /\ Expire
  /\ previewPages' = timerCallback(Head(pending))
  /\ UNCHANGED <<isOpen, previewTasks, isOptimized, previewMaxSize, timer, effects>>
  /\ UNCHANGED <<pvars, wvars>>

PreviewNext ==
  \/ \E open \in BOOLEAN : SetIsOpen(open)
  \/ \E tks \in PreviewTaskLists : SetTasks(tks)
  \/ \E optimized \in BOOLEAN : SetIsOptimized(optimized)
  \/ \E size \in PreviewSizes : SetMaxSize(size)
  \/ TimerFire

\* a timeout that stays pending expires (after its 50 ms); only TimerFire
\* changes ran, so the steps that count are the TimerFire steps
SpecPreview == PreviewInit /\ [][PreviewNext]_vars /\ WF_<<pending, ran>>(Expire)

\* ------------------------------------------------- vocabulary of the claims
\* packAtlases is at its "return pages" statement
Returned == pc = "return"

\* the placements of the returned pages, as (page position, item position)
Slots == { <<pg, it>> \in (1..Len(pages)) \X (1..MaxTasks + 1) : it <= Len(pages[pg].items) }

PlacementAt(sl) == pages[sl[1]].items[sl[2]]

\* [x, x+w) x [y, y+h) of two placements, each widened by m on the right
\* and at the bottom, have no point in common
Apart(a, b, m) ==
  \/ a.x + a.w + m <= b.x
  \/ b.x + b.w + m <= a.x
  \/ a.y + a.h + m <= b.y
  \/ b.y + b.h + m <= a.y

Oversized(t) == t.targetWidth > maxSize \/ t.targetHeight > maxSize

IsPlaced(t) == \E sl \in Slots : PlacementAt(sl).task.id = t.id

InputTasks == { tasks[i] : i \in 1..Len(tasks) }

\* the area of a page's placements, summed over the item positions
RECURSIVE areaUpTo(_, _)
areaUpTo(items, n) ==
  IF n = 0 THEN 0 ELSE areaUpTo(items, n - 1) + items[n].w * items[n].h

\* the number of placements of a page that cover the unit cell at (cx, cy)
Covering(page, cx, cy) ==
  Cardinality({ i \in 1..Len(page.items) :
                  /\ page.items[i].x <= cx /\ cx < page.items[i].x + page.items[i].w
                  /\ page.items[i].y <= cy /\ cy < page.items[i].y + page.items[i].h })

Tiles(page) == \A cx \in 0..(maxSize - 1), cy \in 0..(maxSize - 1) : Covering(page, cx, cy) = 1


\* the stepwise call and the function packAtlases return the same pages
StepwiseIsPackAtlases == Returned => pages = packAtlases(tasks, maxSize, padding)

\* the number of requests delivered to onmessage so far
Handled == Len(sent) - Len(inbox)

IsSuccess(msg) == DOMAIN msg = {"success", "pages"} /\ msg.success = TRUE

IsFailure(msg) == DOMAIN msg = {"success", "error"} /\ msg.success = FALSE

\* a page list that ends with the empty page of a stalled pass
Stalled(result) == Len(result) >= 1 /\ result[Len(result)].items = <<>>

\* ------------------------------------------------------------------ claims
\* C1: on every returned page any two distinct placements have
\* non-overlapping rectangles [x, x+w) x [y, y+h).
C1_NoOverlap ==
  Returned =>
    \A pg \in 1..Len(pages) : \A i, j \in 1..Len(pages[pg].items) :
      i < j => Apart(pages[pg].items[i], pages[pg].items[j], 0)

\* a returned page holds three placements
C1_Witness ==
  Returned /\ \E pg \in 1..Len(pages) : Len(pages[pg].items) >= 3

\* C2: every placement on every returned page lies inside the page:
\* 0 <= x, 0 <= y, x + w <= page_size, y + h <= page_size.
C2_Containment ==
  Returned =>
    \A sl \in Slots :
      LET p == PlacementAt(sl)
      IN 0 <= p.x /\ 0 <= p.y /\ p.x + p.w <= maxSize /\ p.y + p.h <= maxSize

\* a placement away from the origin ends exactly on the right and bottom edges
C2_Witness ==
  Returned /\ \E sl \in Slots :
    LET p == PlacementAt(sl)
    IN p.x > 0 /\ p.y > 0 /\ p.x + p.w = maxSize /\ p.y + p.h = maxSize

\* C3: an input item wider or taller than the page appears in no placement
\* of the returned pages, whatever the other items and its position.
C3_OversizedNeverPlaced ==
  Returned => \A t \in InputTasks : Oversized(t) => ~IsPlaced(t)

\* the first input item is oversized, a later one is placed, and an oversized
\* one follows it
C3_Witness ==
  /\ Returned
  /\ Len(tasks) = 3
  /\ Oversized(tasks[1]) /\ Oversized(tasks[3])
  /\ IsPlaced(tasks[2])

\* C4: every input item no larger than the page (width <= page_size and
\* height <= page_size) appears in at least one placement of the returned pages.
C4_FittingItemsPlaced ==
  Returned => \A t \in InputTasks : ~Oversized(t) => IsPlaced(t)

\* C5: across the pages of one call (checked each time a page has been
\* pushed, and at the return) no input item appears in more than one
\* placement, and every placement refers to an item of the input list.
C5_PlacedAtMostOnce ==
  pc \in {"while", "return"} =>
    /\ \A s1, s2 \in Slots : s1 # s2 => PlacementAt(s1).task.id # PlacementAt(s2).task.id
    /\ \A sl \in Slots : PlacementAt(sl).task \in InputTasks

\* three pages were returned, each with a placement
C5_Witness ==
  Returned /\ Len(pages) = 3 /\ \A pg \in 1..Len(pages) : Len(pages[pg].items) >= 1

\* C6: every placement stores exactly the targetWidth and targetHeight of
\* its item, for every padding: padding is never added to the footprint.
C6_StoredFootprint ==
  Returned =>
    \A sl \in Slots :
      LET p == PlacementAt(sl)
      IN /\ p.task.id \in 1..Len(tasks)
         /\ p.w = tasks[p.task.id].targetWidth
         /\ p.h = tasks[p.task.id].targetHeight

\* with padding > 0, a placement was made next to another one
C6_Witness ==
  Returned /\ padding > 0 /\ \E sl \in Slots : PlacementAt(sl).x > 0

\* C7: two distinct placements of a page have non-overlapping
\* padding-extended rectangles [x, x+w+padding) x [y, y+h+padding), so the
\* stored rectangles are at least padding apart along x or along y.
C7_PaddedApart ==
  Returned =>
    \A pg \in 1..Len(pages) : \A i, j \in 1..Len(pages[pg].items) :
      i < j => Apart(pages[pg].items[i], pages[pg].items[j], padding)

\* with padding > 0, a returned page holds two placements
C7_Witness ==
  Returned /\ padding > 0 /\ \E pg \in 1..Len(pages) : Len(pages[pg].items) >= 2

\* C8: the efficiency of every returned page is
\* 100 * (sum of w*h over that page's placements) / (page_size * page_size).
C8_Efficiency ==
  Returned =>
    \A pg \in 1..Len(pages) :
      LET page == pages[pg]
      IN /\ page.efficiency.den > 0
         /\ page.efficiency.num * (maxSize * maxSize)
              = 100 * areaUpTo(page.items, Len(page.items)) * page.efficiency.den

\* an oversized item was excluded and an item was carried over to a second
\* page, where it was placed
C8_Witness ==
  /\ Returned
  /\ \E t \in InputTasks : Oversized(t)
  /\ Len(pages) >= 2
  /\ Len(pages[1].items) >= 1
  /\ Len(pages[2].items) >= 1

\* C9: every returned page has 0 <= efficiency <= 100; efficiency is 0 for a
\* page with no placements and 100 only when the placements tile the page.
C9_EfficiencyBounds ==
  Returned =>
    \A pg \in 1..Len(pages) :
      LET page == pages[pg]
      IN /\ 0 <= page.efficiency.num
         /\ page.efficiency.num <= 100 * page.efficiency.den
         /\ areaUpTo(page.items, Len(page.items)) <= maxSize * maxSize
         /\ (page.items = <<>> => page.efficiency.num = 0)
         /\ (page.efficiency.num = 100 * page.efficiency.den => Tiles(page))

\* a returned page tiled by three placements has efficiency 100
C9_Witness ==
  /\ Returned
  /\ \E pg \in 1..Len(pages) :
       /\ Len(pages[pg].items) >= 3
       /\ pages[pg].efficiency.num = 100 * pages[pg].efficiency.den

\* C10: a second call with the same item list, page size and padding
\* returns the same page list as the first, whatever the first call left.
C10_Deterministic ==
  (Returned /\ run = 2) => pages = firstPages

\* the second call returns two pages, the first with two placements
C10_Witness ==
  Returned /\ run = 2 /\ Len(pages) >= 2 /\ Len(pages[1].items) >= 2

\* C11: packAtlases terminates: every pass places an item, shrinks the
\* remaining list or takes the stall break, so at the while test the pages
\* built plus the items still remaining never exceed the input length, and
\* the number of passes and of returned pages is at most the number of items.
C11_PassesBounded ==
  /\ Len(pages) <= Len(tasks)
  /\ currentPageIndex <= Len(tasks)
  /\ pc = "while" => Len(pages) + Len(remaining) <= Len(tasks)
  /\ pc = "for" => Len(pages) + 1 <= Len(tasks)

\* the stall break was taken on the second pass of a three-item input that
\* also holds an oversized item
C11_Witness ==
  /\ Returned
  /\ Len(tasks) = 3
  /\ Len(pages) = 2
  /\ pages[2].items = <<>>
  /\ remaining # <<>>
  /\ \E t \in InputTasks : Oversized(t)

\* C12: a call with invalid input (page_size <= 0 or padding < 0) fails
\* before any placement is attempted and produces no pages: it never enters
\* a placement pass, never builds a page and never returns a result.
C12_InvalidInputRejected ==
  (maxSize <= 0 \/ padding < 0) =>
    /\ pc \notin {"for", "return", "done"}
    /\ pages = <<>>

\* C13: packAtlases never mutates its input: no step of a call changes the
\* caller's task array (its length, its elements, their order, their fields).
C13_InputUnchanged == [][tasks' = tasks]_vars

\* a call whose sort reordered its copy and whose carry-over shrank it has
\* returned
C13_Witness ==
  /\ Returned
  /\ sortByHeight(tasks) # tasks
  /\ Len(pages) >= 2
  /\ Len(remaining) < Len(tasks)

C15_FailureIffException ==
  /\ Len(outbox) = Handled
  /\ packed = SubSeq(sent, 1, Handled)
  /\ \A i \in 1..Len(outbox) :
       /\ IsFailure(outbox[i]) <=> packThrows(sent[i])
       /\ ~packThrows(sent[i]) => IsSuccess(outbox[i])

\* a request that stalled (unplaced items, last page empty) and an empty
\* request were both answered with a success
C15_Witness ==
  /\ Len(outbox) = 2
  /\ sent[1].shape = "array" /\ sent[1].padding > 0 /\ sent[1].maxSize = MaxDim
  /\ Len(sent[1].tasks) >= 2
  /\ IsSuccess(outbox[1]) /\ Stalled(outbox[1].pages)
  /\ sent[2].shape = "array" /\ sent[2].tasks = <<>>
  /\ IsSuccess(outbox[2]) /\ outbox[2].pages = <<>>

\* C16: the pages in the success response to a request {tasks, maxSize,
\* padding} are the pages of a direct packAtlases(tasks, maxSize, padding)
\* call, whatever requests were handled before it.
C16_WorkerRefinesDirectCall ==
  \A i \in 1..Len(outbox) :
    IsSuccess(outbox[i]) =>
      outbox[i].pages = packAtlases(sent[i].tasks, sent[i].maxSize, sent[i].padding)

\* two requests were answered with placements, the second for another page
\* size and padding than the first, which needed two pages
C16_Witness ==
  /\ Len(outbox) = 2
  /\ IsSuccess(outbox[1]) /\ IsSuccess(outbox[2])
  /\ sent[1].maxSize # sent[2].maxSize
  /\ sent[1].padding # sent[2].padding
  /\ Len(outbox[1].pages) >= 2 /\ outbox[1].pages[1].items # <<>>
  /\ Len(outbox[2].pages) >= 1 /\ outbox[2].pages[1].items # <<>>

\* C17: within every returned page the placements are listed in
\* non-increasing order of item height, and placements of equal height in
\* the order their items had in the input list.
C17_PageOrder ==
  Returned =>
    \A pg \in 1..Len(pages) : \A i, j \in 1..Len(pages[pg].items) :
      i < j =>
        LET a == pages[pg].items[i]
            b == pages[pg].items[j]
        IN \/ a.task.targetHeight > b.task.targetHeight
           \/ a.task.targetHeight = b.task.targetHeight /\ a.task.id < b.task.id

\* a page lists a later input item before an earlier, lower one, followed by
\* an item of that same height but another width
C17_Witness ==
  /\ Returned
  /\ \E pg \in 1..Len(pages) :
       /\ Len(pages[pg].items) >= 3
       /\ pages[pg].items[1].task.id > pages[pg].items[2].task.id
       /\ pages[pg].items[2].h = pages[pg].items[3].h
       /\ pages[pg].items[2].w # pages[pg].items[3].w

\* the tasks of the placements made so far on the page being built
PlacedHere == { pageItems[i].task : i \in 1..Len(pageItems) }

Attemptable(t) == ~Oversized(t) /\ ~IsPlaced(t)

FailedHere(t) == ~Oversized(t) /\ t \notin PlacedHere

NotOversized(t) == ~Oversized(t)

\* C18: on each pass the items attempted (the non-oversized items of
\* remaining) are exactly the non-oversized items placed on no earlier page, in
\* the order of the initial sort; and the items attempted so far on the pass
\* are each either placed on this page or, having failed to fit, carried over
\* in that order. Hence an item placed on page k was attempted, and failed,
\* on every page before k.
C18_AttemptedEachPass ==
  pc = "for" =>
    /\ SelectSeq(remaining, NotOversized) = SelectSeq(sortByHeight(tasks), Attemptable)
    /\ didntFit = SelectSeq(SubSeq(remaining, 1, k - 1), FailedHere)

\* the third pass has ended with a placement of an item that failed on the
\* two passes before
C18_Witness ==
  /\ pc = "for"
  /\ Len(pages) = 2
  /\ pages[1].items # <<>> /\ pages[2].items # <<>>
  /\ pageItems # <<>>
  /\ k > Len(remaining)

\* the for loop is about to call insert for a task that is not oversized
AtInsert == pc = "for" /\ k <= Len(remaining) /\ ~Oversized(remaining[k])

\* the free regions (by position in the free list) that hold the padded task
Qualifying(t) ==
  { i \in 1..Len(freeRects) :
      /\ freeRects[i].width >= t.targetWidth + padding
      /\ freeRects[i].height >= t.targetHeight + padding }

Score(i, t) ==
  Min(freeRects[i].width - (t.targetWidth + padding),
      freeRects[i].height - (t.targetHeight + padding))

\* the earliest qualifying region of minimum score
Chosen(t) ==
  CHOOSE i \in Qualifying(t) :
    \A j \in Qualifying(t) : Score(i, t) < Score(j, t) \/ (Score(i, t) = Score(j, t) /\ i <= j)

\* C19: insert of an item fails iff no free region has width >= w+padding
\* and height >= h+padding; otherwise the placement's (x, y) is the origin of
\* the qualifying region of minimum score min(width-(w+padding),
\* height-(h+padding)), the earliest in the free list among equal scores.
C19_BestShortSideFit ==
  [][AtInsert =>
       LET t == remaining[k]
       IN IF Qualifying(t) = {}
          THEN pageItems' = pageItems /\ didntFit' = Append(didntFit, t)
          ELSE /\ didntFit' = didntFit
               /\ Len(pageItems') = Len(pageItems) + 1
               /\ SubSeq(pageItems', 1, Len(pageItems)) = pageItems
               /\ pageItems'[Len(pageItems')].task = t
               /\ pageItems'[Len(pageItems')].x = freeRects[Chosen(t)].x
               /\ pageItems'[Len(pageItems')].y = freeRects[Chosen(t)].y]_vars

\* after a placement, insert is called for a task that two free regions at
\* different origins hold with the same minimum score
C19_Witness ==
  /\ AtInsert
  /\ pageItems # <<>>
  /\ \E i, j \in Qualifying(remaining[k]) :
       /\ i < j
       /\ Score(i, remaining[k]) = Score(j, remaining[k])
       /\ Chosen(remaining[k]) = i
       /\ <<freeRects[i].x, freeRects[i].y>> # <<freeRects[j].x, freeRects[j].y>>

\* the padded rectangle insert reserves for task t: the padded size at the
\* origin of the chosen free region
UsedRect(t) ==
  [x |-> freeRects[Chosen(t)].x, y |-> freeRects[Chosen(t)].y,
   width |-> t.targetWidth + padding, height |-> t.targetHeight + padding]

\* rectangles f and u have a point in common
Meets(f, u) ==
  /\ u.x < f.x + f.width /\ f.x < u.x + u.width
  /\ u.y < f.y + f.height /\ f.y < u.y + u.height

\* rectangle a lies inside rectangle b
Inside(a, b) ==
  /\ b.x <= a.x /\ a.x + a.width <= b.x + b.width
  /\ b.y <= a.y /\ a.y + a.height <= b.y + b.height

\* C20: a placement leaves untouched every free region that does not
\* intersect the newly used (padded) rectangle: it is still in the free list,
\* with the same x, y, width and height, after the split and the prune. Only
\* intersecting regions are replaced: they leave the list, and every other
\* entry of the new list is a residual sub-rectangle of one of them, at most
\* four per intersecting region.
C20_UntouchedRegionsKept ==
  [][(AtInsert /\ Qualifying(remaining[k]) # {}) =>
       LET u == UsedRect(remaining[k])
           kept == { i \in 1..Len(freeRects) : ~Meets(freeRects[i], u) }
           hit == { i \in 1..Len(freeRects) : Meets(freeRects[i], u) }
       IN /\ \A i \in kept : \E j \in 1..Len(freeRects') : freeRects'[j] = freeRects[i]
          /\ \A i \in hit : \A j \in 1..Len(freeRects') : freeRects'[j] # freeRects[i]
          /\ \A j \in 1..Len(freeRects') :
               \/ \E i \in kept : freeRects[i] = freeRects'[j]
               \/ /\ ~Meets(freeRects'[j], u)
                  /\ \E i \in hit : Inside(freeRects'[j], freeRects[i])
          /\ Len(freeRects') <= Cardinality(kept) + 4 * Cardinality(hit)]_vars

\* insert is about to place a task on a page that already holds one, and its
\* padded rectangle leaves one of the free regions untouched
C20_Witness ==
  /\ AtInsert
  /\ Qualifying(remaining[k]) # {}
  /\ pageItems # <<>>
  /\ \E i \in 1..Len(freeRects) : ~Meets(freeRects[i], UsedRect(remaining[k]))

\* C21: after every successful insert (split, then prune, both splicing in
\* place) the free list holds no two entries at distinct positions with one
\* inside the other (in particular no duplicates), and every entry has
\* positive width and height.
C21_FreeListPruned ==
  (pc = "for" /\ pageItems # <<>>) =>
    /\ \A i, j \in 1..Len(freeRects) : i # j => ~Inside(freeRects[i], freeRects[j])
    /\ \A i \in 1..Len(freeRects) : freeRects[i].width > 0 /\ freeRects[i].height > 0

\* after two placements on a page the free list holds two regions that
\* overlap without either being inside the other
C21_Witness ==
  /\ pc = "for"
  /\ Len(pageItems) >= 2
  /\ \E i, j \in 1..Len(freeRects) : i < j /\ Meets(freeRects[i], freeRects[j])

\* the parameter set of the preview's current render, as a timeout's closure
\* captures it
CurrentParams ==
  [tasks |-> previewTasks, isOptimized |-> isOptimized, maxSize |-> previewMaxSize]

ParamsOf(e) == [tasks |-> e.tasks, isOptimized |-> e.isOptimized, maxSize |-> e.maxSize]

\* at most one delayed pack is pending, and it is the one the last effect run
\* scheduled, for the current parameter set of an open preview
OnlyCurrentPending ==
  /\ Len(pending) <= 1
  /\ \A i \in 1..Len(pending) :
       isOpen /\ pending[i].id = timer /\ ParamsOf(pending[i]) = CurrentParams

\* the preview is open and its pages are those of the one pack that ran for
\* the current parameter set
Settled ==
  isOpen =>
    /\ pending = <<>>
    /\ timer \in ran
    /\ previewPages = timerCallback(CurrentParams)

IdenticalSquares ==
  \A i \in 1..Len(tasks) :
    /\ tasks[i].targetWidth = tasks[1].targetWidth
    /\ tasks[i].targetHeight = tasks[1].targetWidth
    /\ tasks[1].targetWidth + padding <= maxSize

\* floor(page_size / (s + padding))^2 for the side s of the squares
PerPage ==
  LET per == maxSize \div (tasks[1].targetWidth + padding)
  IN per * per

\* C23: for n identical squares of side s with s + padding <= page_size,
\* every returned page except the last holds exactly
\* k = floor(page_size / (s + padding))^2 placements, the last between 1 and
\* k, the result has ceil(n / k) pages and all n items are placed.
C23_IdenticalSquares ==
  (Returned /\ IdenticalSquares /\ tasks # <<>>) =>
    /\ \A pg \in 1..(Len(pages) - 1) : Len(pages[pg].items) = PerPage
    /\ Len(pages) >= 1
    /\ Len(pages[Len(pages)].items) \in 1..PerPage
    /\ Len(pages) = (Len(tasks) + PerPage - 1) \div PerPage
    /\ \A i \in 1..Len(tasks) :
         \E pg \in 1..Len(pages) : \E it \in 1..Len(pages[pg].items) :
           pages[pg].items[it].task = tasks[i]

\* with padding, squares that go four to a page were packed on three pages
C23_Witness ==
  /\ Returned
  /\ tasks # <<>>
  /\ IdenticalSquares
  /\ padding > 0
  /\ PerPage = 4
  /\ Len(pages) = 3

\* the preview shows the pages packed for its current parameter set
Fresh == isOpen /\ pending = <<>> /\ timer \in ran

\* task t is in the list the preview reports as oversized / excluded
Surfaced(t) ==
  LET over == oversizedAssets(previewTasks, previewMaxSize, isOptimized)
  IN \E i \in 1..Len(over) : over[i].id = t.id

\* task t appears in a placement of the pages the preview holds
Shown(t) ==
  \E pg \in 1..Len(previewPages) : \E it \in 1..Len(previewPages[pg].items) :
    previewPages[pg].items[it].task.id = t.id

\* C24: in the preview (which packs with padding 2), for every task list,
\* view mode and page size, the tasks reported as oversized/excluded are
\* exactly the tasks that appear in no placement of the computed pages:
\* every task is either placed on some page or in the oversized list.
C24_ExcludedSurfaced ==
  Fresh => \A i \in 1..Len(previewTasks) : Surfaced(previewTasks[i]) <=> ~Shown(previewTasks[i])

\* the item fits an empty page together with its padding
FitsPadded(t) == t.targetWidth + padding <= maxSize /\ t.targetHeight + padding <= maxSize

C26_PaddedInsidePage ==
  Returned =>
    \A sl \in Slots :
      LET p == PlacementAt(sl)
      IN p.x + p.w + padding <= maxSize /\ p.y + p.h + padding <= maxSize

\* with padding, a placement away from the left edge has its padded
\* footprint end exactly on the right edge of the page
C26_Witness ==
  /\ Returned
  /\ padding > 0
  /\ \E sl \in Slots :
       PlacementAt(sl).x > 0 /\ PlacementAt(sl).x + PlacementAt(sl).w + padding = maxSize

\* the rectangle a placement reserves: its footprint extended by the padding
\* to the right and at the bottom
Footprint(p) == [x |-> p.x, y |-> p.y, width |-> p.w + padding, height |-> p.h + padding]

\* rectangle r meets no padded footprint placed so far on the page being built
ClearOfItems(r) == \A i \in 1..Len(pageItems) : ~Meets(r, Footprint(pageItems[i]))

InPage(r) == 0 <= r.x /\ 0 <= r.y /\ r.x + r.width <= maxSize /\ r.y + r.height <= maxSize

\* C27: while a page is being built, after every insert the free list
\* represents the free space exactly: every free region lies inside the page
\* and is disjoint from every padding-extended footprint placed so far, and
\* every axis-aligned rectangle inside the page disjoint from all those
\* footprints is contained in a single free region; hence an item is carried
\* over only if its padded footprint fits nowhere on the page.
C27_FreeSpaceExact ==
  pc = "for" =>
    /\ \A i \in 1..Len(freeRects) : InPage(freeRects[i]) /\ ClearOfItems(freeRects[i])
    /\ \A x \in 0..(maxSize - 1), y \in 0..(maxSize - 1) :
         \A w \in 1..(maxSize - x), h \in 1..(maxSize - y) :
           LET r == [x |-> x, y |-> y, width |-> w, height |-> h]
           IN ClearOfItems(r) => \E i \in 1..Len(freeRects) : Inside(r, freeRects[i])
    /\ \A d \in 1..Len(didntFit) :
         \A x \in 0..(maxSize - 1), y \in 0..(maxSize - 1) :
           LET r == [x |-> x, y |-> y, width |-> didntFit[d].targetWidth + padding,
                     height |-> didntFit[d].targetHeight + padding]
           IN ~(InPage(r) /\ ClearOfItems(r))

\* with padding, two placements were made on a page, an item was carried
\* over, and free regions remain
C27_Witness ==
  /\ pc = "for"
  /\ padding > 0
  /\ Len(pageItems) >= 2
  /\ didntFit # <<>>
  /\ Len(freeRects) >= 2

\* task t is in a placement of one of the first n returned pages
PlacedBefore(t, n) ==
  \E pg \in 1..n : \E it \in 1..Len(pages[pg].items) : pages[pg].items[it].task.id = t.id

EmptyPages == { pg \in 1..Len(pages) : pages[pg].items = <<>> }

\* C28: pages with zero placements occur only as a suffix of the returned
\* list, of length at most two: a page followed by a page with a placement
\* has a placement itself; a page with zero placements comes from a pass in
\* which no item still unplaced fits an empty page; and when a pass stalls on
\* items that fit nowhere, its empty page is in the result (the last page).
C28_EmptyPagesSuffix ==
  Returned =>
    /\ \A pg \in 1..(Len(pages) - 1) : pages[pg + 1].items # <<>> => pages[pg].items # <<>>
    /\ Cardinality(EmptyPages) <= 2
    /\ \A pg \in EmptyPages :
         \A t \in InputTasks : ~PlacedBefore(t, pg - 1) => ~FitsPadded(t)
    /\ (\E t \in InputTasks : ~Oversized(t) /\ ~FitsPadded(t)) =>
         (pages # <<>> /\ pages[Len(pages)].items = <<>>)

\* an oversized item and one that fits nowhere with its padding gave two
\* empty pages: the pass that dropped the oversized item, then the stall
C28_Witness ==
  /\ Returned
  /\ Len(pages) = 2
  /\ EmptyPages = {1, 2}
  /\ \E t \in InputTasks : Oversized(t)

\* C29: packAtlases returns an empty page list if and only if the input list
\* is empty: a non-empty input yields at least one page, and when every item
\* is oversized or unplaceable the pages have zero placements and efficiency 0.
C29_EmptyIffEmptyInput ==
  Returned =>
    /\ pages = <<>> <=> tasks = <<>>
    /\ (tasks # <<>> /\ \A t \in InputTasks : ~FitsPadded(t)) =>
         \A pg \in 1..Len(pages) : pages[pg].items = <<>> /\ pages[pg].efficiency.num = 0

\* a list of three oversized items gave a single page with no placement
C29_Witness ==
  /\ Returned
  /\ Len(tasks) = 3
  /\ \A t \in InputTasks : Oversized(t)
  /\ Len(pages) = 1
  /\ pages[1].items = <<>>

\* msg is the response to request req: the failure of a call that throws, or
\* the success carrying the pages of req's own arguments
Answers(msg, req) ==
  IF packThrows(req)
  THEN IsFailure(msg)
  ELSE IsSuccess(msg) /\ msg.pages = packAtlases(req.tasks, req.maxSize, req.padding)

====
